---- MODULE Spec2Model ----
(***************************************************************************)
(* Model of the graph store (graph.ts), the search-state pool (pool.ts),   *)
(* the A* engine (astar.ts), the ring buffer (ring.ts) and the integer     *)
(* division (math.ts) of aoc-lib.                                          *)
(*                                                                         *)
(* Objects are modelled by handles: a Link object is an index (oid) into   *)
(* linkObj, a NodeSearchState object is a slot number of the pool's cache, *)
(* a Node object is named by its id (the store holds one Node per id).     *)
(* A Set of links keeps insertion order, so node.links is a sequence.       *)
(***************************************************************************)
EXTENDS Integers, Sequences, FiniteSets, TLC

\* ------------------------------------------------------------------------
\* Bounds of the model
\* ------------------------------------------------------------------------
MaxNodeId == 2
MaxLinkObjs == 2
MaxData == 2
MaxNodeData == 1
MaxCalls == 5
MaxPool == 3
MaxLength == 3
MaxPushes == 7
MaxVal == 2
MaxInt == 5

NodeIds == 0..MaxNodeId
LinkData == 1..MaxData
NodeData == 1..MaxNodeData
RingValues == 1..MaxVal
Ints == (0 - MaxInt)..MaxInt

\* undefined Link, null NodeSearchState, undefined payload of a node
NoLink == <<"", 0>>
Null == 0
NoData == 0

\* an array element that was never assigned
Undefined == 0

VARIABLES
  multigraph,   \* Graph.#opts.multigraph
  nodes,        \* Graph.#nodes   : Map<NodeId, Node>
  links,        \* Graph.#links   : Map<string, Link>
  linkObj,      \* the Link objects referenced by the store or by a node
  multiEdges,   \* Graph.#multiEdges : Record<string, number>
  suspendEvents, \* Graph.#suspendEvents
  listening,    \* Graph.#listening
  changes,      \* Graph.#changes
  emitted,      \* the calls of the 'changed' listener made by the last call
  returned,     \* the object the last call on the store returned
  oriented,     \* Astar.#opts.oriented
  distance,     \* Astar.#opts.distance : "unit" (default) or "data"
  blocking,     \* Astar.#opts.blocked : "never" (default) or "data"
  nodeCache,    \* StatePool.#nodeCache
  currentInCache, \* StatePool.#currentInCache
  length,       \* Ring.#length
  buf,          \* Ring.#buf
  count,        \* Ring.#count
  pushed,       \* the values handed to Ring.push so far, in order
  ret,          \* the last public call and what it returned
  calls         \* number of public calls made so far

graphVars == <<multigraph, nodes, links, linkObj, multiEdges,
               suspendEvents, listening, changes>>
astarVars == <<oriented, distance, blocking, nodeCache, currentInCache>>
ringVars == <<length, buf, count, pushed>>
vars == <<multigraph, nodes, links, linkObj, multiEdges,
          suspendEvents, listening, changes, emitted, returned,
          oriented, distance, blocking, nodeCache, currentInCache,
          length, buf, count, pushed, ret, calls>>

\* ------------------------------------------------------------------------
\* Sequence helpers
\* ------------------------------------------------------------------------
Range(s) == {s[i] : i \in DOMAIN s}

RECURSIVE Without(_, _)
Without(s, x) ==
  IF s = <<>> THEN <<>>
  ELSE IF Head(s) = x THEN Without(Tail(s), x)
  ELSE <<Head(s)>> \o Without(Tail(s), x)

\* ------------------------------------------------------------------------
\* Link identity (graph.ts, class Link)
\* ------------------------------------------------------------------------
Digits == <<"0", "1", "2", "3", "4", "5", "6", "7", "8", "9">>

\* String(n) for a non-negative integer n
RECURSIVE ToStr(_)
ToStr(n) ==
  IF n < 10 THEN Digits[n + 1]
  ELSE ToStr(n \div 10) \o Digits[(n % 10) + 1]

\* the template of Link.makeId on the already formatted endpoints; "=>"
\* stands for the separator character of the source (U+1F449)
makeIdStr(fromStr, toStr) == fromStr \o "=>" \o toStr

\* Link.makeId(fromId, toId)
makeId(fromId, toId) == makeIdStr(ToStr(fromId), ToStr(toId))

\* JavaScript falsiness of a numeric identifier (!fromNodeId)
Falsy(nodeId) == nodeId = 0

\* ------------------------------------------------------------------------
\* The graph store as a value, so that operations compose
\* ------------------------------------------------------------------------
\* (emitted collects what the listener is handed while a call runs)
G == [multigraph |-> multigraph, nodes |-> nodes, links |-> links,
      linkObj |-> linkObj, multiEdges |-> multiEdges,
      suspendEvents |-> suspendEvents, listening |-> listening,
      changes |-> changes, emitted |-> <<>>]

\* Graph.getNode(nodeId) is defined
hasNode(g, nodeId) == nodeId \in DOMAIN g.nodes

\* node.links of a stored node, in the insertion order of the Set
\* (undefined and the empty Set enumerate alike: both are <<>>)
nodeLinks(g, nodeId) == g.nodes[nodeId].links

\* this.#links.get(linkId): the stored Link object, or undefined
linksGet(g, linkId) ==
  IF linkId \in DOMAIN g.links THEN g.links[linkId] ELSE NoLink

\* this.#links.set(linkId, link)
linksSet(g, linkId, oid) ==
  [g EXCEPT !.links = [k \in DOMAIN g.links \cup {linkId} |->
                         IF k = linkId THEN oid ELSE g.links[k]]]

\* this.#links.delete(linkId)
linksDelete(g, linkId) ==
  [g EXCEPT !.links = [k \in DOMAIN g.links \ {linkId} |-> g.links[k]]]

\* Graph.nodeCount, Graph.linkCount
nodeCount(g) == Cardinality(DOMAIN g.nodes)
linkCount(g) == Cardinality(DOMAIN g.links)

\* Graph.getLink
getLink(g, fromNodeId, toNodeId) ==
  IF Falsy(fromNodeId) \/ Falsy(toNodeId) THEN NoLink
  ELSE linksGet(g, makeId(fromNodeId, toNodeId))

\* Graph.getLinks(nodeId): the Link objects in node.links, in order
getLinks(g, nodeId) ==
  IF hasNode(g, nodeId) THEN nodeLinks(g, nodeId) ELSE <<>>

\* ------------------------------------------------------------------------
\* Change notification
\* ------------------------------------------------------------------------
\* A Node object as a change record or a caller holds it: the id and the
\* serial number of the object.  NoNode stands for no node.
NodeRef(g, nodeId) == <<nodeId, g.nodes[nodeId].obj>>
NoNode == <<-1, 0>>
NoLinkRef == [oid |-> NoLink, fromId |-> -1, toId |-> -1, id |-> ""]

\* {type: 'node', changeType, node} and {type: 'link', changeType, link}
NodeChange(changeType, node) ==
  [type |-> "node", changeType |-> changeType, node |-> node,
   link |-> NoLinkRef]
LinkChange(changeType, link) ==
  [type |-> "link", changeType |-> changeType, node |-> NoNode,
   link |-> link]

\* Graph.#enterModification
enterModification(g) == [g EXCEPT !.suspendEvents = @ + 1]

\* this.emit('changed', this.#changes): the listener is handed the list; the
\* nodes and links it can read off the store at that moment are kept with it
Delivery(g) == [changes |-> g.changes, nodes |-> g.nodes, links |-> g.links]

\* #exitModification that notifies whenever changes are pending
exitModification_eager(g) ==
  LET g1 == [g EXCEPT !.suspendEvents = @ - 1] IN
  IF Len(g1.changes) > 0
  THEN [g1 EXCEPT !.emitted = Append(@, Delivery(g1)), !.changes = <<>>]
  ELSE g1

\* Graph.#exitModification
exitModification(g) ==
  LET g1 == [g EXCEPT !.suspendEvents = @ - 1] IN
  IF g1.suspendEvents = 0 /\ Len(g1.changes) > 0
  THEN [g1 EXCEPT !.emitted = Append(@, Delivery(g1)), !.changes = <<>>]
  ELSE g1

\* Graph.#recordNodeChange
recordNodeChange(g, node, changeType) ==
  IF g.listening
  THEN [g EXCEPT !.changes = Append(@, NodeChange(changeType, node))]
  ELSE g

\* Graph.#recordLinkChange
recordLinkChange(g, link, changeType) ==
  IF g.listening
  THEN [g EXCEPT !.changes = Append(@, LinkChange(changeType, link))]
  ELSE g

\* ------------------------------------------------------------------------
\* Operations of the store
\* ------------------------------------------------------------------------
\* new Node(nodeId, data): a fresh object; its serial number is the first
\* one that the stored node of that id, if any, does not use
NewNode(g, nodeId, data) ==
  [links |-> <<>>, data |-> data,
   obj |-> IF hasNode(g, nodeId) /\ g.nodes[nodeId].obj = 1 THEN 2 ELSE 1]

\* this.#nodes.set(nodeId, node)
nodesSet(g, nodeId, node) ==
  [g EXCEPT !.nodes = [n \in DOMAIN g.nodes \cup {nodeId} |->
                         IF n = nodeId THEN node ELSE g.nodes[n]]]

\* addNode that always stores a new Node object
addNode_replace(g, nodeId, data) ==
  LET g1 == enterModification(g)
      node == NewNode(g1, nodeId, data)
      g2 == recordNodeChange(g1, <<nodeId, node.obj>>,
                             IF hasNode(g1, nodeId) THEN "update" ELSE "add")
      g3 == nodesSet(g2, nodeId, node)
  IN [g |-> exitModification(g3), node |-> <<nodeId, node.obj>>]

\* Graph.addNode
addNode(g, nodeId, data) ==
  LET g1 == enterModification(g) IN
  IF hasNode(g1, nodeId)
  THEN LET g2 == [g1 EXCEPT !.nodes[nodeId].data = data]
           g3 == recordNodeChange(g2, NodeRef(g2, nodeId), "update")
       IN [g |-> exitModification(g3), node |-> NodeRef(g3, nodeId)]
  ELSE LET node == NewNode(g1, nodeId, data)
           g2 == recordNodeChange(g1, <<nodeId, node.obj>>, "add")
           g3 == nodesSet(g2, nodeId, node)
       IN [g |-> exitModification(g3), node |-> <<nodeId, node.obj>>]

\* Node.addLink on the stored node nodeId: a Set ignores a second add
Node_addLink(g, nodeId, oid) ==
  IF oid \in Range(g.nodes[nodeId].links) THEN g
  ELSE [g EXCEPT !.nodes[nodeId].links = Append(@, oid)]

\* this.getNode(nodeId)?.links?.delete(link)
Node_deleteLink(g, nodeId, oid) ==
  IF ~hasNode(g, nodeId) THEN g
  ELSE [g EXCEPT !.nodes[nodeId].links = Without(@, oid)]

\* new Link(fromId, toId, data, linkId): a fresh object.  Its handle is the
\* link id with the first serial number no live object of that id uses.
NewOid(g, linkId) ==
  <<linkId, CHOOSE k \in 1..(Cardinality(DOMAIN g.linkObj) + 1) :
              /\ <<linkId, k>> \notin DOMAIN g.linkObj
              /\ \A j \in 1..(k - 1) : <<linkId, j>> \in DOMAIN g.linkObj>>

NewLink(g, fromId, toId, data, linkId) ==
  LET o == NewOid(g, linkId) IN
  [g |-> [g EXCEPT !.linkObj =
            [x \in DOMAIN g.linkObj \cup {o} |->
               IF x = o THEN [fromId |-> fromId, toId |-> toId,
                              data |-> data, id |-> linkId]
               ELSE g.linkObj[x]]],
   link |-> o]

\* #createSingleLink that leaves the payload of the stored link as it was
createSingleLink_keepData(g, fromId, toId, data) ==
  LET linkId == makeId(fromId, toId)
      prevLink == linksGet(g, linkId)
  IN IF prevLink # NoLink
     THEN [g |-> g, link |-> prevLink]
     ELSE NewLink(g, fromId, toId, data, linkId)

\* Graph.#createSingleLink
createSingleLink(g, fromId, toId, data) ==
  LET linkId == makeId(fromId, toId)
      prevLink == linksGet(g, linkId)
  IN IF prevLink # NoLink
     THEN [g |-> [g EXCEPT !.linkObj[prevLink].data = data], link |-> prevLink]
     ELSE NewLink(g, fromId, toId, data, linkId)

\* Graph.#createUniqueLink
createUniqueLink(g, fromId, toId, data) ==
  LET linkId == makeId(fromId, toId)
      isMultiEdge == linkId \in DOMAIN g.multiEdges
  IN IF isMultiEdge \/ getLink(g, fromId, toId) # NoLink
     THEN LET n == IF isMultiEdge THEN g.multiEdges[linkId] + 1 ELSE 1
              suffix == "@" \o ToStr(n)
              g1 == [g EXCEPT !.multiEdges =
                       [k \in DOMAIN g.multiEdges \cup {linkId} |->
                          IF k = linkId THEN n ELSE g.multiEdges[k]]]
          IN NewLink(g1, fromId, toId, data,
                     makeIdStr(ToStr(fromId) \o suffix, ToStr(toId) \o suffix))
     ELSE NewLink(g, fromId, toId, data, linkId)

\* Graph.createLink
createLink(g, fromId, toId, data) ==
  IF g.multigraph THEN createUniqueLink(g, fromId, toId, data)
  ELSE createSingleLink(g, fromId, toId, data)

\* A Link object as the caller passes it: the handle and its fields.
LinkRef(g, oid) ==
  [oid |-> oid, fromId |-> g.linkObj[oid].fromId,
   toId |-> g.linkObj[oid].toId, id |-> g.linkObj[oid].id]

\* addLink that attaches the link to the from node only
addLink_fromOnly(g, fromId, toId, data) ==
  LET g0 == enterModification(g)
      g1 == IF hasNode(g0, fromId) THEN g0 ELSE addNode(g0, fromId, NoData).g
      g2 == IF hasNode(g1, toId) THEN g1 ELSE addNode(g1, toId, NoData).g
      c == createLink(g2, fromId, toId, data)
      linkId == c.g.linkObj[c.link].id
      isUpdate == linkId \in DOMAIN c.g.links
      g3 == linksSet(c.g, linkId, c.link)
      g4 == Node_addLink(g3, fromId, c.link)
      g6 == recordLinkChange(g4, LinkRef(g4, c.link),
                             IF isUpdate THEN "update" ELSE "add")
  IN [g |-> exitModification(g6), link |-> c.link]

\* Graph.addLink
addLink(g, fromId, toId, data) ==
  LET g0 == enterModification(g)
      g1 == IF hasNode(g0, fromId) THEN g0 ELSE addNode(g0, fromId, NoData).g
      g2 == IF hasNode(g1, toId) THEN g1 ELSE addNode(g1, toId, NoData).g
      c == createLink(g2, fromId, toId, data)
      linkId == c.g.linkObj[c.link].id
      isUpdate == linkId \in DOMAIN c.g.links
      g3 == linksSet(c.g, linkId, c.link)
      g4 == Node_addLink(g3, fromId, c.link)
      g5 == IF fromId # toId THEN Node_addLink(g4, toId, c.link) ELSE g4
      g6 == recordLinkChange(g5, LinkRef(g5, c.link),
                             IF isUpdate THEN "update" ELSE "add")
  IN [g |-> exitModification(g6), link |-> c.link]

\* A Link object that neither the store nor a node references: one built by
\* the caller with new Link(fromId, toId), or one removed from the store
\* earlier.  Serial number 0 is never given to a referenced object.
ForeignLink(fromId, toId) ==
  [oid |-> <<makeId(fromId, toId), 0>>, fromId |-> fromId, toId |-> toId,
   id |-> makeId(fromId, toId)]

\* Graph.removeLinkInstance
removeLinkInstance(g, link) ==
  IF linksGet(g, link.id) = NoLink THEN [g |-> g, ret |-> FALSE]
  ELSE LET g0 == enterModification(g)
           g1 == linksDelete(g0, link.id)
           g2 == Node_deleteLink(g1, link.fromId, link.oid)
           g3 == Node_deleteLink(g2, link.toId, link.oid)
           g4 == recordLinkChange(g3, link, "remove")
       IN [g |-> exitModification(g4), ret |-> TRUE]

\* this.getLink(fromNodeId, toNodeId) in removeLink: the Link object that
\* the two identifiers resolve to, or undefined
resolveLink(g, fromNodeId, toNodeId) ==
  LET link == getLink(g, fromNodeId, toNodeId) IN
  IF link = NoLink THEN NoLinkRef ELSE LinkRef(g, link)

\* removeLink that returns false where there is no link to remove
removeLink_noThrow(g, link) ==
  IF link = NoLinkRef THEN [g |-> g, ret |-> FALSE, threw |-> ""]
  ELSE LET r == removeLinkInstance(g, link) IN
       [g |-> r.g, ret |-> r.ret, threw |-> ""]

\* removeLink that throws for a Link object whose id the store does not hold
removeLink_strict(g, link) ==
  IF link = NoLinkRef \/ linksGet(g, link.id) = NoLink
  THEN [g |-> g, ret |-> FALSE, threw |-> "Unknown link"]
  ELSE LET r == removeLinkInstance(g, link) IN
       [g |-> r.g, ret |-> r.ret, threw |-> ""]

\* Graph.removeLink once its argument is a Link object or undefined
removeLink(g, link) ==
  IF link = NoLinkRef THEN [g |-> g, ret |-> FALSE, threw |-> "Unknown link"]
  ELSE LET r == removeLinkInstance(g, link) IN
       [g |-> r.g, ret |-> r.ret, threw |-> ""]

\* prevLinks.forEach((l) => this.removeLinkInstance(l)): the entries of the
\* live Set from position i on; an entry deleted before its turn is skipped
RECURSIVE removeEach(_, _, _, _)
removeEach(g, nodeId, prev, i) ==
  IF i > Len(prev) THEN g
  ELSE IF prev[i] \notin Range(nodeLinks(g, nodeId))
       THEN removeEach(g, nodeId, prev, i + 1)
       ELSE removeEach(removeLinkInstance(g, LinkRef(g, prev[i])).g,
                       nodeId, prev, i + 1)

\* this.#nodes.delete(nodeId)
nodesDelete(g, nodeId) ==
  [g EXCEPT !.nodes = [n \in DOMAIN g.nodes \ {nodeId} |-> g.nodes[n]]]

\* removeNode that reports the removal also when the node is not stored
removeNode_absentNotify(g, nodeId) ==
  LET g0 == enterModification(g)
      prevLinks == IF hasNode(g0, nodeId) THEN nodeLinks(g0, nodeId) ELSE <<>>
      g1 == removeEach(g0, nodeId, prevLinks, 1)
      g3 == nodesDelete(g1, nodeId)
      g4 == recordNodeChange(g3, <<nodeId, 1>>, "remove")
  IN [g |-> exitModification(g4), ret |-> hasNode(g, nodeId)]

\* removeNode that forgets to remove the incident links
removeNode_noCascade(g, nodeId) ==
  IF ~hasNode(g, nodeId) THEN [g |-> g, ret |-> FALSE]
  ELSE LET node == NodeRef(g, nodeId)
           g0 == enterModification(g)
           g3 == nodesDelete(g0, nodeId)
           g4 == recordNodeChange(g3, node, "remove")
       IN [g |-> exitModification(g4), ret |-> TRUE]

\* Graph.removeNode
removeNode(g, nodeId) ==
  IF ~hasNode(g, nodeId) THEN [g |-> g, ret |-> FALSE]
  ELSE LET node == NodeRef(g, nodeId)
           g0 == enterModification(g)
           prevLinks == nodeLinks(g0, nodeId)
           g1 == removeEach(g0, nodeId, prevLinks, 1)
           g2 == [g1 EXCEPT !.nodes[nodeId].links = <<>>]
           g3 == nodesDelete(g2, nodeId)
           g4 == recordNodeChange(g3, node, "remove")
       IN [g |-> exitModification(g4), ret |-> TRUE]

\* for (const node of this.nodes()) this.removeNode(node.id).  The nodes
\* are taken by ascending id; the resulting store and the set of changes
\* do not depend on the order of the Map.
RECURSIVE clearEach(_)
clearEach(g) ==
  IF DOMAIN g.nodes = {} THEN g
  ELSE clearEach(removeNode(g, CHOOSE n \in DOMAIN g.nodes :
                                 \A m \in DOMAIN g.nodes : n <= m).g)

\* clear that does not hold the notification back while it removes the nodes
clear_unbatched(g) == clearEach(g)

\* Graph.clear
clear(g) == exitModification(clearEach(enterModification(g)))

\* Link objects that nothing references any more are dropped
Referenced(g) ==
  {g.links[k] : k \in DOMAIN g.links}
    \cup UNION {Range(g.nodes[n].links) : n \in DOMAIN g.nodes}

Collect(g) ==
  [g EXCEPT !.linkObj = [o \in Referenced(g) |-> g.linkObj[o]]]

\* Graph.#nonOrientedLinks / Graph.#orientedLinks: what the generator gives,
\* entry by entry.  An entry is a yielded tuple [node, link, otherNode] or
\* the throw that ends the enumeration.
Yield(node, link, otherNode) ==
  [throw |-> FALSE, t |-> <<node, link, otherNode>>, msg |-> ""]
Throw(msg) == [throw |-> TRUE, t |-> <<>>, msg |-> msg]

RECURSIVE nonOrientedLinks(_, _, _)
nonOrientedLinks(g, node, ls) ==
  IF ls = <<>> THEN <<>>
  ELSE LET link == Head(ls)
           linkedNodeId == IF g.linkObj[link].fromId = node
                           THEN g.linkObj[link].toId
                           ELSE g.linkObj[link].fromId
       IN IF ~hasNode(g, linkedNodeId) THEN <<Throw("Invalid link")>>
          ELSE <<Yield(node, link, linkedNodeId)>>
                 \o nonOrientedLinks(g, node, Tail(ls))

RECURSIVE orientedLinks(_, _, _)
orientedLinks(g, node, ls) ==
  IF ls = <<>> THEN <<>>
  ELSE LET link == Head(ls) IN
       IF g.linkObj[link].fromId = node
       THEN IF ~hasNode(g, g.linkObj[link].toId)
            THEN <<Throw("Invalid node state")>>
            ELSE <<Yield(node, link, g.linkObj[link].toId)>>
                   \o orientedLinks(g, node, Tail(ls))
       ELSE orientedLinks(g, node, Tail(ls))

\* Graph.linkedNodes(nodeId, oriented)
linkedNodes(g, nodeId, isOriented) ==
  IF hasNode(g, nodeId) /\ nodeLinks(g, nodeId) # <<>>
  THEN IF isOriented THEN orientedLinks(g, nodeId, nodeLinks(g, nodeId))
       ELSE nonOrientedLinks(g, nodeId, nodeLinks(g, nodeId))
  ELSE <<>>

\* ------------------------------------------------------------------------
\* Search-state pool (pool.ts)
\* ------------------------------------------------------------------------
Infinity == 1000000

\* new NodeSearchState(node)
NodeSearchState(node) ==
  [node |-> node, parent |-> Null, closed |-> FALSE, open |-> 0,
   distanceToSource |-> Infinity, fScore |-> Infinity, heapIndex |-> -1]

Pool == [nodeCache |-> nodeCache, currentInCache |-> currentInCache]

\* new StatePool()
EmptyPool == [nodeCache |-> <<>>, currentInCache |-> 0]

\* reset that discards the allocated records
reset_discard(p) == [nodeCache |-> <<>>, currentInCache |-> 0]

\* StatePool.reset
reset(p) == [p EXCEPT !.currentInCache = 0]

\* newState that leaves the closed flag of a reused record as it was
newState_keepClosed(p, node) ==
  LET k == p.currentInCache + 1 IN
  [pool |-> [nodeCache |->
               IF k <= Len(p.nodeCache)
               THEN [p.nodeCache EXCEPT ![k] =
                       [@ EXCEPT !.node = node, !.parent = Null, !.open = 0,
                                 !.distanceToSource = Infinity,
                                 !.fScore = Infinity, !.heapIndex = -1]]
               ELSE Append(p.nodeCache, NodeSearchState(node)),
             currentInCache |-> k],
   state |-> k]

\* newState that leaves the node of a reused record as it was
newState_keepNode(p, node) ==
  LET k == p.currentInCache + 1 IN
  [pool |-> [nodeCache |->
               IF k <= Len(p.nodeCache)
               THEN [p.nodeCache EXCEPT ![k] =
                       [@ EXCEPT !.parent = Null,
                                 !.closed = FALSE, !.open = 0,
                                 !.distanceToSource = Infinity,
                                 !.fScore = Infinity, !.heapIndex = -1]]
               ELSE Append(p.nodeCache, NodeSearchState(node)),
             currentInCache |-> k],
   state |-> k]

\* StatePool.newState: slot k of the sequence is #nodeCache[k - 1]
newState(p, node) ==
  LET k == p.currentInCache + 1 IN
  [pool |-> [nodeCache |->
               IF k <= Len(p.nodeCache)
               THEN [p.nodeCache EXCEPT ![k] =
                       [@ EXCEPT !.node = node, !.parent = Null,
                                 !.closed = FALSE, !.open = 0,
                                 !.distanceToSource = Infinity,
                                 !.fScore = Infinity, !.heapIndex = -1]]
               ELSE Append(p.nodeCache, NodeSearchState(node)),
             currentInCache |-> k],
   state |-> k]

\* ------------------------------------------------------------------------
\* A* engine (astar.ts)
\* ------------------------------------------------------------------------
Opts == [oriented |-> oriented, distance |-> distance, blocked |-> blocking]

\* the defaults of the constructor
blocked(a, b, l) == FALSE
blockedPath(cameFrom, state, l) == FALSE
heuristic(a, b) == 0

\* #opts.blocked: the default, or (a, b, link) => link.data === MaxData, a
\* predicate that rejects the steps over the links of the largest payload
blockedBy(o, g, a, b, link) ==
  IF o.blocked = "never" THEN blocked(a, b, link)
  ELSE g.linkObj[link].data = MaxData

\* #opts.distance: the default () => 1, or the payload of the link
distanceOf(o, g, a, b, link) ==
  IF o.distance = "unit" THEN 1 ELSE g.linkObj[link].data

\* #opts.compare on two search states of the cache
compare(cache, a, b) == cache[a].fScore - cache[b].fScore

\* BinaryHeap of @std/data-structures: an array heap, indices from 0
swap(data, a, b) ==
  [data EXCEPT ![a + 1] = data[b + 1], ![b + 1] = data[a + 1]]

getParentIndex(index) == ((index + 1) \div 2) - 1

RECURSIVE siftUp(_, _, _, _)
siftUp(cache, data, index, value) ==
  LET parent == getParentIndex(index) IN
  IF index # 0 /\ compare(cache, value, data[parent + 1]) < 0
  THEN siftUp(cache, swap(data, parent, index), parent, value)
  ELSE data

\* openSet.push(value)
heapPush(cache, data, value) ==
  siftUp(cache, Append(data, value), Len(data), value)

RECURSIVE siftDown(_, _, _, _)
siftDown(cache, data, parent, size) ==
  LET right == 2 * (parent + 1)
      left == right - 1
  IN IF left < size
     THEN LET greatestChild ==
                IF right = size
                   \/ compare(cache, data[left + 1], data[right + 1]) <= 0
                THEN left ELSE right
          IN IF compare(cache, data[greatestChild + 1], data[parent + 1]) < 0
             THEN siftDown(cache, swap(data, parent, greatestChild),
                           greatestChild, size)
             ELSE data
     ELSE data

\* openSet.pop()
heapPop(cache, data) ==
  LET size == Len(data) - 1
      d == siftDown(cache, swap(data, 0, size), 0, size)
  IN [item |-> d[size + 1], data |-> SubSeq(d, 1, size)]

\* goalReached that takes every popped state for the goal
goalReached_always(cache, searchState, targetNode) == TRUE

\* goalReached that compares the search state itself with the target node
goalReached_never(cache, searchState, targetNode) == FALSE

\* goalReached(searchState, targetNode)
goalReached(cache, searchState, targetNode) ==
  cache[searchState].node = targetNode

\* reconstructPath(searchState)
RECURSIVE reconstructPath(_, _)
reconstructPath(cache, searchState) ==
  <<cache[searchState].node>>
    \o (IF cache[searchState].parent = Null THEN <<>>
        ELSE reconstructPath(cache, cache[searchState].parent))

\* const [otherNode, link] of this.#graph.linkedNodes(...): the first two
\* components of the yielded tuple
otherNodeOf(t) == t[1]
linkOf(t) == t[2]

\* the loop body that, while the pool holds fewer than MaxPool records, takes
\* a new search state for the node of a link although the node has one
RECURSIVE visit_renew(_, _, _, _, _, _, _)
visit_renew(g, o, e, cameFrom, entries, i, to) ==
  IF i > Len(entries) THEN [threw |-> "", e |-> e]
  ELSE IF entries[i].throw THEN [threw |-> entries[i].msg, e |-> e]
  ELSE
    LET otherNode == otherNodeOf(entries[i].t)
        link == linkOf(entries[i].t)
        known == otherNode \in DOMAIN e.nodeState /\ e.cur >= MaxPool
        n == newState([nodeCache |-> e.cache, currentInCache |-> e.cur],
                      otherNode)
        e1 == IF known THEN e
              ELSE [e EXCEPT !.cache = n.pool.nodeCache,
                             !.cur = n.pool.currentInCache,
                             !.nodeState =
                               [x \in DOMAIN e.nodeState \cup {otherNode} |->
                                  IF x = otherNode THEN n.state
                                  ELSE e.nodeState[x]]]
        other == e1.nodeState[otherNode]
        tentativeDistance ==
          e1.cache[cameFrom].distanceToSource
            + distanceOf(o, g, otherNode, e1.cache[cameFrom].node, link)
    IN IF e1.cache[other].closed
       THEN visit_renew(g, o, e1, cameFrom, entries, i + 1, to)
       ELSE IF blockedBy(o, g, otherNode, e1.cache[cameFrom].node, link)
       THEN visit_renew(g, o, e1, cameFrom, entries, i + 1, to)
       ELSE IF blockedPath(cameFrom, other, link)
       THEN visit_renew(g, o, e1, cameFrom, entries, i + 1, to)
       ELSE IF tentativeDistance >= e1.cache[other].distanceToSource
       THEN visit_renew(g, o, e1, cameFrom, entries, i + 1, to)
       ELSE
         LET cache2 == [e1.cache EXCEPT
                          ![other].parent = cameFrom,
                          ![other].distanceToSource = tentativeDistance,
                          ![other].fScore =
                            tentativeDistance + heuristic(otherNode, to)]
             e2 == [e1 EXCEPT !.cache = cache2,
                              !.openSet = heapPush(cache2, e1.openSet, other)]
         IN visit_renew(g, o, e2, cameFrom, entries, i + 1, to)

\* The body of the for-of loop of find, over the entries from position i.
\* e is the search in progress: the pool (cache, cur), nodeState, openSet.
RECURSIVE visit(_, _, _, _, _, _, _)
visit(g, o, e, cameFrom, entries, i, to) ==
  IF i > Len(entries) THEN [threw |-> "", e |-> e]
  ELSE IF entries[i].throw THEN [threw |-> entries[i].msg, e |-> e]
  ELSE
    LET otherNode == otherNodeOf(entries[i].t)
        link == linkOf(entries[i].t)
        known == otherNode \in DOMAIN e.nodeState
        n == newState([nodeCache |-> e.cache, currentInCache |-> e.cur],
                      otherNode)
        e1 == IF known THEN e
              ELSE [e EXCEPT !.cache = n.pool.nodeCache,
                             !.cur = n.pool.currentInCache,
                             !.nodeState =
                               [x \in DOMAIN e.nodeState \cup {otherNode} |->
                                  IF x = otherNode THEN n.state
                                  ELSE e.nodeState[x]]]
        other == e1.nodeState[otherNode]
        tentativeDistance ==
          e1.cache[cameFrom].distanceToSource
            + distanceOf(o, g, otherNode, e1.cache[cameFrom].node, link)
    IN IF e1.cache[other].closed
       THEN visit(g, o, e1, cameFrom, entries, i + 1, to)
       ELSE IF blockedBy(o, g, otherNode, e1.cache[cameFrom].node, link)
       THEN visit(g, o, e1, cameFrom, entries, i + 1, to)
       ELSE IF blockedPath(cameFrom, other, link)
       THEN visit(g, o, e1, cameFrom, entries, i + 1, to)
       ELSE IF tentativeDistance >= e1.cache[other].distanceToSource
       THEN visit(g, o, e1, cameFrom, entries, i + 1, to)
       ELSE
         LET cache2 == [e1.cache EXCEPT
                          ![other].parent = cameFrom,
                          ![other].distanceToSource = tentativeDistance,
                          ![other].fScore =
                            tentativeDistance + heuristic(otherNode, to)]
             e2 == [e1 EXCEPT !.cache = cache2,
                              !.openSet = heapPush(cache2, e1.openSet, other)]
         IN visit(g, o, e2, cameFrom, entries, i + 1, to)

FindResult(kind, path, e) ==
  [kind |-> kind, path |-> path,
   pool |-> [nodeCache |-> e.cache, currentInCache |-> e.cur]]

\* while (openSet.length > 0) { ... } return NO_PATH
RECURSIVE searchLoop(_, _, _, _)
searchLoop(g, o, e, to) ==
  IF Len(e.openSet) = 0 THEN FindResult("NO_PATH", <<>>, e)
  ELSE
    LET p == heapPop(e.cache, e.openSet)
        cameFrom == p.item
    IN IF goalReached(e.cache, cameFrom, to)
       THEN FindResult("path", reconstructPath(e.cache, cameFrom), e)
       ELSE
         LET e1 == [e EXCEPT !.openSet = p.data,
                             !.cache[cameFrom].closed = TRUE]
             v == visit(g, o, e1, cameFrom,
                        linkedNodes(g, e1.cache[cameFrom].node, o.oriented),
                        1, to)
         IN IF v.threw # "" THEN FindResult(v.threw, <<>>, v.e)
            ELSE searchLoop(g, o, v.e, to)

\* the check of the endpoints without the one of toId
endpointsDefined_fromOnly(g, fromId, toId) == hasNode(g, fromId)

\* both endpoints resolve: getNode(fromId) and getNode(toId)
endpointsDefined(g, fromId, toId) == hasNode(g, fromId) /\ hasNode(g, toId)

\* Astar.find(fromId, toId) on the engine with pool p and options o
find(g, p, o, fromId, toId) ==
  IF ~endpointsDefined(g, fromId, toId)
  THEN [kind |-> "is not defined in this graph", path |-> <<>>, pool |-> p]
  ELSE
    LET s == newState(reset(p), fromId)
        startNode == s.state
        cache1 == [s.pool.nodeCache EXCEPT
                     ![startNode].fScore = heuristic(fromId, toId),
                     ![startNode].distanceToSource = 0]
        openSet == heapPush(cache1, <<>>, startNode)
        cache2 == [cache1 EXCEPT ![startNode].open = 1]
    IN searchLoop(g, o,
                  [cache |-> cache2, cur |-> s.pool.currentInCache,
                   nodeState |-> [x \in {fromId} |-> startNode],
                   openSet |-> openSet],
                  toId)

\* ------------------------------------------------------------------------
\* Results of public calls
\* ------------------------------------------------------------------------
\* What the last public call was and what it gave back: the operation, its
\* two identifier arguments, the kind of outcome, the path a find returned,
\* and for a find the number of pool records that existed when it started.
Ret(op, a, b, kind, path, reused) ==
  [op |-> op, a |-> a, b |-> b, kind |-> kind, path |-> path,
   reused |-> reused]

\* the object a call on the store returned: a Node, a Link, or neither
NoReturn == [node |-> NoNode, link |-> NoLink]

\* a call on the store of which only the effect on the store is kept
Quiet == Ret("store", 0, 0, "void", <<>>, 0)

\* one more public call, while the budget of calls lasts
Call == calls < MaxCalls /\ calls' = calls + 1

SetGraph(g) ==
  /\ multigraph' = g.multigraph
  /\ nodes' = g.nodes
  /\ links' = g.links
  /\ linkObj' = g.linkObj
  /\ multiEdges' = g.multiEdges
  /\ suspendEvents' = g.suspendEvents
  /\ listening' = g.listening
  /\ changes' = g.changes
  /\ emitted' = g.emitted

EmptyFn == [x \in {} |-> 0]

\* no Ring has been constructed
NoRing == length = 0 /\ buf = <<>> /\ count = 0 /\ pushed = <<>>

\* new Graph(options)
GraphInit ==
  /\ nodes = EmptyFn
  /\ links = EmptyFn
  /\ linkObj = EmptyFn
  /\ multiEdges = EmptyFn
  /\ suspendEvents = 0
  /\ changes = <<>>
  /\ emitted = <<>>
  /\ returned = NoReturn

\* ------------------------------------------------------------------------
\* Public operations of the store: the effect of one call on the store
\* ------------------------------------------------------------------------
AddNodeStep(nodeId, data) ==
  /\ Call
  /\ SetGraph(addNode(G, nodeId, data).g)
  /\ UNCHANGED <<astarVars, ringVars>>

AddLinkStep(fromId, toId, data) ==
  LET r == addLink(G, fromId, toId, data) IN
  /\ Call
  /\ Cardinality(DOMAIN r.g.linkObj) <= MaxLinkObjs
  /\ SetGraph(r.g)
  /\ UNCHANGED <<astarVars, ringVars>>

RemoveNodeStep(nodeId) ==
  /\ Call
  /\ SetGraph(Collect(removeNode(G, nodeId).g))
  /\ UNCHANGED <<astarVars, ringVars>>

\* removeLink(link) with a Link object
RemoveLinkObjStep(link) ==
  /\ Call
  /\ SetGraph(Collect(removeLink(G, link).g))
  /\ UNCHANGED <<astarVars, ringVars>>

\* the Link objects a caller can hand to removeLink
CallerLinks ==
  {LinkRef(G, o) : o \in DOMAIN linkObj}
    \cup {ForeignLink(f, t) : f \in NodeIds, t \in NodeIds}

\* ------------------------------------------------------------------------
\* The store on its own: every call and its result
\* ------------------------------------------------------------------------
Bool(b) == IF b THEN "true" ELSE "false"

\* the outcome of removeLink: the error thrown, or the boolean returned
Outcome(r) == IF r.threw # "" THEN r.threw ELSE Bool(r.ret)

AddNode(nodeId, data) ==
  /\ AddNodeStep(nodeId, data)
  /\ ret' = Ret("addNode", nodeId, nodeId, "node", <<>>, 0)
  /\ returned' = [node |-> addNode(G, nodeId, data).node, link |-> NoLink]

AddLink(fromId, toId, data) ==
  /\ AddLinkStep(fromId, toId, data)
  /\ ret' = Ret("addLink", fromId, toId, "link", <<>>, 0)
  /\ returned' = [node |-> NoNode,
                  link |-> addLink(G, fromId, toId, data).link]

RemoveNode(nodeId) ==
  /\ RemoveNodeStep(nodeId)
  /\ ret' = Ret("removeNode", nodeId, nodeId,
                Bool(removeNode(G, nodeId).ret), <<>>, 0)
  /\ returned' = NoReturn

\* removeLink(fromNodeId, toNodeId)
RemoveLinkByIds(fromId, toId) ==
  LET r == removeLink(G, resolveLink(G, fromId, toId)) IN
  /\ Call
  /\ SetGraph(Collect(r.g))
  /\ ret' = Ret("removeLink", fromId, toId, Outcome(r), <<>>, 0)
  /\ returned' = NoReturn
  /\ UNCHANGED <<astarVars, ringVars>>

RemoveLinkObj(link) ==
  /\ RemoveLinkObjStep(link)
  /\ ret' = Ret("removeLinkObj", link.fromId, link.toId,
                Outcome(removeLink(G, link)), <<>>, 0)
  /\ returned' = NoReturn

Clear ==
  /\ Call
  /\ SetGraph(Collect(clear(G)))
  /\ ret' = Ret("clear", 0, 0, "void", <<>>, 0)
  /\ returned' = NoReturn
  /\ UNCHANGED <<astarVars, ringVars>>

\* new Graph({multigraph}); the engine is left as constructed by default
Init ==
  /\ GraphInit
  /\ NoRing
  /\ multigraph \in BOOLEAN
  /\ listening = FALSE
  /\ oriented = FALSE
  /\ distance = "unit"
  /\ blocking = "never"
  /\ nodeCache = <<>>
  /\ currentInCache = 0
  /\ ret = Ret("new", 0, 0, "void", <<>>, 0)
  /\ calls = 0

Next ==
  \/ \E n \in NodeIds : AddNode(n, NoData)
  \/ \E f \in NodeIds, t \in NodeIds, d \in LinkData : AddLink(f, t, d)
  \/ \E n \in NodeIds : RemoveNode(n)
  \/ \E f \in NodeIds, t \in NodeIds : RemoveLinkByIds(f, t)
  \/ \E l \in CallerLinks : RemoveLinkObj(l)
  \/ Clear

Spec == Init /\ [][Next]_vars

\* ------------------------------------------------------------------------
\* The store with a 'changed' listener
\* ------------------------------------------------------------------------
\* new Graph({multigraph}); graph.on('changed', listener): the registration
\* is the first public call
InitEvents ==
  /\ GraphInit
  /\ NoRing
  /\ multigraph \in BOOLEAN
  /\ listening = TRUE
  /\ oriented = FALSE
  /\ distance = "unit"
  /\ blocking = "never"
  /\ nodeCache = <<>>
  /\ currentInCache = 0
  /\ ret = Ret("on", 0, 0, "void", <<>>, 0)
  /\ calls = 1

NextEvents ==
  \/ \E n \in NodeIds, d \in NodeData \cup {NoData} : AddNode(n, d)
  \/ \E f \in NodeIds, t \in NodeIds, d \in LinkData : AddLink(f, t, d)
  \/ \E n \in NodeIds : RemoveNode(n)
  \/ \E f \in NodeIds, t \in NodeIds : RemoveLinkByIds(f, t)
  \/ \E l \in CallerLinks : RemoveLinkObj(l)
  \/ Clear

SpecEvents == InitEvents /\ [][NextEvents]_vars

\* ------------------------------------------------------------------------
\* The engine over a store that the caller keeps changing
\* ------------------------------------------------------------------------
\* a mutating call on the store between two searches
Build ==
  /\ \/ \E n \in NodeIds : AddNodeStep(n, NoData)
     \/ \E f \in NodeIds, t \in NodeIds, d \in LinkData : AddLinkStep(f, t, d)
     \/ \E n \in NodeIds : RemoveNodeStep(n)
     \/ \E l \in CallerLinks : RemoveLinkObjStep(l)
  /\ ret' = Quiet
  /\ returned' = NoReturn

\* a find that takes the destination node out of the store when it is done
Find_consuming(fromId, toId) ==
  LET r == find(G, Pool, Opts, fromId, toId) IN
  /\ Call
  /\ nodeCache' = r.pool.nodeCache
  /\ currentInCache' = r.pool.currentInCache
  /\ ret' = Ret("find", fromId, toId, r.kind, r.path, Len(nodeCache))
  /\ SetGraph(Collect(removeNode(G, toId).g))
  /\ returned' = NoReturn
  /\ UNCHANGED <<oriented, distance, blocking, ringVars>>

\* Astar.find(fromId, toId)
Find(fromId, toId) ==
  LET r == find(G, Pool, Opts, fromId, toId) IN
  /\ Call
  /\ nodeCache' = r.pool.nodeCache
  /\ currentInCache' = r.pool.currentInCache
  /\ ret' = Ret("find", fromId, toId, r.kind, r.path, Len(nodeCache))
  /\ emitted' = <<>>
  /\ returned' = NoReturn
  /\ UNCHANGED <<graphVars, oriented, distance, blocking, ringVars>>

\* The engines looked at: new Astar(graph) with the default options, and
\* new Astar(graph, {oriented: true, distance: (a, b, link) => link.data})
EngineOptions ==
  {[oriented |-> FALSE, distance |-> "unit"],
   [oriented |-> TRUE, distance |-> "data"]}

\* new Graph(); new Astar(graph, options)
InitAstar ==
  /\ GraphInit
  /\ NoRing
  /\ multigraph = FALSE
  /\ listening = FALSE
  /\ \E o \in EngineOptions : oriented = o.oriented /\ distance = o.distance
  /\ blocking = "never"
  /\ nodeCache = <<>>
  /\ currentInCache = 0
  /\ ret = Ret("new", 0, 0, "void", <<>>, 0)
  /\ calls = 0

NextAstar ==
  \/ Build
  \/ \E f \in NodeIds, t \in NodeIds : Find(f, t)

SpecAstar == InitAstar /\ [][NextAstar]_vars

\* new Graph(); new Astar(graph, {blocked: (a, b, link) => link.data === MaxData})
InitBlocked ==
  /\ GraphInit
  /\ NoRing
  /\ multigraph = FALSE
  /\ listening = FALSE
  /\ oriented = FALSE
  /\ distance = "unit"
  /\ blocking = "data"
  /\ nodeCache = <<>>
  /\ currentInCache = 0
  /\ ret = Ret("new", 0, 0, "void", <<>>, 0)
  /\ calls = 0

SpecBlocked == InitBlocked /\ [][NextAstar]_vars

\* ------------------------------------------------------------------------
\* The pool on its own, with a client that writes the records as find does
\* ------------------------------------------------------------------------
\* a write of the client into a record of the pool
Wrote == Ret("write", 0, 0, "void", <<>>, 0)

SetPool(p) ==
  /\ nodeCache' = p.nodeCache
  /\ currentInCache' = p.currentInCache
  /\ UNCHANGED <<graphVars, emitted, returned, oriented, distance, blocking,
                 calls,
                 ringVars>>

\* pool.reset()
PoolReset ==
  /\ SetPool(reset(Pool))
  /\ ret' = Ret("reset", 0, 0, "void", <<>>, 0)

\* pool.newState(node): ret keeps the argument, the slot of the record that
\* was returned, and the record the slot held before the call, if any
PoolNewState(node) ==
  LET r == newState(Pool, node) IN
  /\ currentInCache < MaxPool
  /\ SetPool(r.pool)
  /\ ret' = Ret("newState", node, r.state,
                IF currentInCache < Len(nodeCache) THEN "reused" ELSE "fresh",
                IF currentInCache < Len(nodeCache)
                THEN <<nodeCache[currentInCache + 1]>> ELSE <<>>, 0)

\* the records handed out since the last reset
HandedOut == 1..currentInCache

\* startNode.fScore = heuristic(from, to); startNode.distanceToSource = 0;
\* startNode.open = 1
MarkStart(k) ==
  /\ SetPool([Pool EXCEPT !.nodeCache[k].fScore = heuristic(0, 0),
                          !.nodeCache[k].distanceToSource = 0,
                          !.nodeCache[k].open = 1])
  /\ ret' = Wrote

\* cameFrom.closed = true
Close(k) ==
  /\ SetPool([Pool EXCEPT !.nodeCache[k].closed = TRUE])
  /\ ret' = Wrote

\* the relaxation that also takes a tentative distance equal to the present
\* one
Relax_orEqual(k, cameFrom, d) ==
  LET tentativeDistance == nodeCache[cameFrom].distanceToSource + d IN
  /\ cameFrom # k
  /\ nodeCache[cameFrom].distanceToSource < Infinity
  /\ tentativeDistance <= nodeCache[k].distanceToSource
  /\ SetPool([Pool EXCEPT !.nodeCache[k].parent = cameFrom,
                          !.nodeCache[k].distanceToSource = tentativeDistance,
                          !.nodeCache[k].fScore =
                            tentativeDistance + heuristic(0, 0)])
  /\ ret' = Ret("relax", k, cameFrom, "pushed", <<>>, 0)

\* if (tentativeDistance >= otherSearchState.distanceToSource) continue;
\* otherSearchState.parent = cameFrom; .distanceToSource = tentativeDistance;
\* .fScore = tentativeDistance + heuristic(...); openSet.push(otherSearchState)
\* for the state cameFrom that was popped, hence has a distance
Relax(k, cameFrom, d) ==
  LET tentativeDistance == nodeCache[cameFrom].distanceToSource + d IN
  /\ cameFrom # k
  /\ nodeCache[cameFrom].distanceToSource < Infinity
  /\ tentativeDistance < nodeCache[k].distanceToSource
  /\ SetPool([Pool EXCEPT !.nodeCache[k].parent = cameFrom,
                          !.nodeCache[k].distanceToSource = tentativeDistance,
                          !.nodeCache[k].fScore =
                            tentativeDistance + heuristic(0, 0)])
  /\ ret' = Ret("relax", k, cameFrom, "pushed", <<>>, 0)

\* new StatePool()
InitPool ==
  /\ GraphInit
  /\ NoRing
  /\ multigraph = FALSE
  /\ listening = FALSE
  /\ oriented = FALSE
  /\ distance = "unit"
  /\ blocking = "never"
  /\ nodeCache = <<>>
  /\ currentInCache = 0
  /\ ret = Ret("new", 0, 0, "void", <<>>, 0)
  /\ calls = 0

NextPool ==
  \/ PoolReset
  \/ \E n \in NodeIds : PoolNewState(n)
  \/ \E k \in HandedOut : MarkStart(k)
  \/ \E k \in HandedOut : Close(k)
  \/ \E k \in HandedOut, c \in HandedOut, d \in LinkData : Relax(k, c, d)

SpecPool == InitPool /\ [][NextPool]_vars

\* ------------------------------------------------------------------------
\* Ring buffer (ring.ts)
\* ------------------------------------------------------------------------
Ring == [length |-> length, buf |-> buf, count |-> count]

\* new Ring(length): #buf = Array.from({length})
NewRing(len) ==
  [length |-> len, buf |-> [i \in 1..len |-> Undefined], count |-> 0]

\* Ring.push: this.#buf[this.#count++ % this.#length] = val
push(r, val) ==
  [r EXCEPT !.buf[(r.count % r.length) + 1] = val, !.count = @ + 1]

\* Array.prototype.slice(from, to) on indices that lie within the array
slice(a, from, to) == SubSeq(a, from + 1, to)

\* get that returns the buffer as it lies in memory
get_unrotated(r) ==
  IF r.count < r.length THEN slice(r.buf, 0, r.count)
  ELSE slice(r.buf, 0, r.length)

\* Ring.get
get(r) ==
  IF r.count < r.length THEN slice(r.buf, 0, r.count)
  ELSE LET pos == r.count % r.length IN
       IF pos = 0 THEN slice(r.buf, 0, r.length)
       ELSE slice(r.buf, pos, r.length) \o slice(r.buf, 0, pos)

\* Ring.size, Ring.full
size(r) == IF r.count > r.length THEN r.length ELSE r.count
full(r) == r.count >= r.length

SetRing(r) ==
  /\ length' = r.length
  /\ buf' = r.buf
  /\ count' = r.count
  /\ UNCHANGED <<graphVars, emitted, returned, astarVars, calls>>

\* ring.push(val)
Push(val) ==
  /\ count < MaxPushes
  /\ SetRing(push(Ring, val))
  /\ pushed' = Append(pushed, val)
  /\ ret' = Ret("push", val, 0, "void", <<>>, 0)

\* ring.get()
Get ==
  /\ SetRing(Ring)
  /\ pushed' = pushed
  /\ ret' = Ret("get", 0, 0, "array", get(Ring), 0)

\* new Ring(length) for a capacity of at least 1
InitRing ==
  /\ GraphInit
  /\ multigraph = FALSE
  /\ listening = FALSE
  /\ oriented = FALSE
  /\ distance = "unit"
  /\ blocking = "never"
  /\ nodeCache = <<>>
  /\ currentInCache = 0
  /\ \E len \in 1..MaxLength :
       /\ length = len
       /\ buf = NewRing(len).buf
       /\ count = NewRing(len).count
  /\ pushed = <<>>
  /\ ret = Ret("new", 0, 0, "void", <<>>, 0)
  /\ calls = 0

NextRing ==
  \/ \E val \in RingValues : Push(val)
  \/ Get

SpecRing == InitRing /\ [][NextRing]_vars

\* ------------------------------------------------------------------------
\* Integer division (math.ts)
\* ------------------------------------------------------------------------
Abs(x) == IF x < 0 THEN 0 - x ELSE x

\* x / y on bigints: the quotient rounded toward zero
truncDiv(x, y) ==
  LET q == Abs(x) \div Abs(y) IN
  IF (x < 0) # (y < 0) THEN 0 - q ELSE q

\* x % y of JavaScript, on numbers and on bigints: the remainder that has
\* the sign of the dividend
rem(x, y) == x - y * truncDiv(x, y)

\* Math.floor(x / y) on numbers that hold integers
floorDiv(x, y) ==
  IF rem(x, y) # 0 /\ ((x < 0) # (y < 0)) THEN truncDiv(x, y) - 1
  ELSE truncDiv(x, y)

\* mod(x, y) for y # 0; mod throws 'Division by zero' for y == 0
mod(x, y) == rem(rem(x, y) + y, y)

\* divmod(x, y) of the type t, "number" or "bigint".  For y = 0 the bigint
\* quotient x / y and, for numbers, mod throw 'Division by zero'.
divmod(t, x, y) ==
  IF y = 0 THEN [threw |-> "Division by zero", q |-> 0, r |-> 0]
  ELSE LET r == mod(x, y) IN
       IF t = "bigint"
       THEN LET q == truncDiv(x, y) IN
            [threw |-> "", q |-> IF q < 0 /\ r > 0 THEN q - 1 ELSE q, r |-> r]
       ELSE [threw |-> "", q |-> floorDiv(x, y), r |-> r]

\* divmod<number>(x, y) or divmod<bigint>(x, y)
Divmod(t, x, y) ==
  LET d == divmod(t, x, y) IN
  /\ ret' = Ret("divmod", x, y, IF d.threw # "" THEN d.threw ELSE t,
                IF d.threw # "" THEN <<>> ELSE <<d.q, d.r>>, 0)
  /\ UNCHANGED <<graphVars, emitted, returned, astarVars, ringVars, calls>>

InitMath ==
  /\ GraphInit
  /\ NoRing
  /\ multigraph = FALSE
  /\ listening = FALSE
  /\ oriented = FALSE
  /\ distance = "unit"
  /\ blocking = "never"
  /\ nodeCache = <<>>
  /\ currentInCache = 0
  /\ ret = Ret("new", 0, 0, "void", <<>>, 0)
  /\ calls = 0

NextMath ==
  \E t \in {"number", "bigint"}, x \in Ints, y \in Ints : Divmod(t, x, y)

SpecMath == InitMath /\ [][NextMath]_vars

\* ------------------------------------------------------------------------
\* Properties
\* ------------------------------------------------------------------------
\* the links yielded by links()
StoredLinks == {links[k] : k \in DOMAIN links}

\* the links reachable through the incident-link sets of the stored nodes
IncidentLinks == UNION {Range(nodes[n].links) : n \in DOMAIN nodes}

\* a stored link leads from a to b; without orientation also from b to a
Joins(a, b, isOriented) ==
  \E l \in StoredLinks :
    \/ linkObj[l].fromId = a /\ linkObj[l].toId = b
    \/ ~isOriented /\ linkObj[l].fromId = b /\ linkObj[l].toId = a

\* the stored nodes within k steps of a
RECURSIVE Ball(_, _, _)
Ball(a, k, isOriented) ==
  IF k = 0 THEN {a} \cap DOMAIN nodes
  ELSE LET B == Ball(a, k - 1, isOriented) IN
       B \cup {n \in DOMAIN nodes : \E m \in B : Joins(m, n, isOriented)}

Connected(a, b, isOriented) ==
  b \in Ball(a, Cardinality(DOMAIN nodes), isOriented)

\* breadth-first hop distance between two connected nodes
HopDistance(a, b) ==
  CHOOSE k \in 0..Cardinality(DOMAIN nodes) :
    /\ b \in Ball(a, k, FALSE)
    /\ k = 0 \/ b \notin Ball(a, k - 1, FALSE)

DefaultOptions == ~oriented /\ distance = "unit" /\ blocking = "never"

FindCalled == ret.op = "find"
BothStored == ret.a \in DOMAIN nodes /\ ret.b \in DOMAIN nodes

\* C1: with default options, find between two connected nodes returns a
\* path whose edge count is the breadth-first hop distance between them.
C1_HopCount ==
  (FindCalled /\ DefaultOptions /\ BothStored
     /\ Connected(ret.a, ret.b, FALSE))
  => (ret.kind = "path" /\ Len(ret.path) - 1 = HopDistance(ret.a, ret.b))

Reverse(seq) == [i \in 1..Len(seq) |-> seq[Len(seq) + 1 - i]]

\* the sequences n1..nk of distinct identifiers, k >= 2
Chains ==
  {c \in UNION {[1..k -> NodeIds] : k \in 2..(MaxNodeId + 1)} :
     \A i \in DOMAIN c, j \in DOMAIN c : i # j => c[i] # c[j]}

\* the store is the chain built by addLink(c[1], c[2]), addLink(c[2], c[3]), ...
IsChain(c) ==
  /\ DOMAIN nodes = Range(c)
  /\ Cardinality(StoredLinks) = Len(c) - 1
  /\ {<<linkObj[l].fromId, linkObj[l].toId>> : l \in StoredLinks}
       = {<<c[i], c[i + 1]>> : i \in 1..(Len(c) - 1)}
  /\ \A n \in DOMAIN nodes :
       Range(nodes[n].links)
         = {l \in StoredLinks : n \in {linkObj[l].fromId, linkObj[l].toId}}

\* C2: on a chain n1..nk, find(n1, nk) with default options returns the
\* nodes nk, ..., n1, destination first.
C2_ChainPath ==
  \A c \in Chains :
    (FindCalled /\ DefaultOptions /\ IsChain(c)
       /\ ret.a = c[1] /\ ret.b = c[Len(c)])
    => (ret.kind = "path" /\ ret.path = Reverse(c))

Min(S) == CHOOSE x \in S : \A y \in S : x <= y

\* the cheapest link that leads from a to b for this engine
StepCost(a, b) ==
  Min({Infinity} \cup
      {distanceOf(Opts, G, b, a, l) :
         l \in {x \in StoredLinks :
                  \/ linkObj[x].fromId = a /\ linkObj[x].toId = b
                  \/ ~oriented /\ linkObj[x].fromId = b
                               /\ linkObj[x].toId = a}})

\* the least summed distance of a walk of at most k links from a to n
RECURSIVE CostWithin(_, _, _)
CostWithin(a, n, k) ==
  IF k = 0 THEN (IF n = a THEN 0 ELSE Infinity)
  ELSE Min({CostWithin(a, n, k - 1)} \cup
           {CostWithin(a, m, k - 1) + StepCost(m, n) : m \in DOMAIN nodes})

\* the summed distance of a returned path (destination first)
RECURSIVE PathCost(_)
PathCost(path) ==
  IF Len(path) <= 1 THEN 0
  ELSE StepCost(path[2], path[1]) + PathCost(Tail(path))

\* C3: with a distance function that gives every link a positive integer
\* (its payload), find returns a path of least summed distance whenever the
\* destination can be reached.
C3_LeastCost ==
  (FindCalled /\ distance = "data" /\ BothStored
     /\ Connected(ret.a, ret.b, oriented))
  => (/\ ret.kind = "path"
      /\ PathCost(ret.path)
           = CostWithin(ret.a, ret.b, Cardinality(DOMAIN nodes)))

\* C4: find(x, x) for a stored node x returns the path holding x alone.
C4_SameNode ==
  (FindCalled /\ ret.a = ret.b /\ ret.a \in DOMAIN nodes)
  => (ret.kind = "path" /\ ret.path = <<ret.a>>)

\* find(x, x) has returned on a node x that carries a self-loop
C4_Witness ==
  /\ FindCalled /\ ret.a = ret.b /\ ret.kind = "path"
  /\ \E l \in StoredLinks : linkObj[l].fromId = ret.a /\ linkObj[l].toId = ret.a
  /\ \E l \in Range(getLinks(G, ret.a)) : linkObj[l].toId = ret.a

\* C5: find between two stored nodes that no path joins returns NO_PATH.
C5_NoPathSentinel ==
  (FindCalled /\ BothStored /\ ~Connected(ret.a, ret.b, FALSE))
  => ret.kind = "NO_PATH"

\* C6: find fails with an error whenever fromId or toId is not a node of
\* the graph, also when the two are equal.
C6_AbsentEndpointFails ==
  (FindCalled /\ ~BothStored) => ret.kind = "is not defined in this graph"

\* find(x, y) has been called with x stored and y absent
C6_Witness ==
  /\ FindCalled /\ ret.a \in DOMAIN nodes /\ ret.b \notin DOMAIN nodes
  /\ ret.kind = "is not defined in this graph"

\* C7: a find on an engine that has searched before returns what the same
\* call returns on a freshly constructed engine.
C7_HistoryIndependent ==
  FindCalled =>
    LET fresh == find(G, EmptyPool, Opts, ret.a, ret.b) IN
    ret.kind = fresh.kind /\ ret.path = fresh.path

\* a find that reused a pool record of an earlier search and found a path
C7_Witness == FindCalled /\ ret.reused > 0 /\ ret.kind = "path"

\* C8: nodeCount and linkCount are the numbers of nodes and links that
\* enumeration yields, and the links reachable through the incident-link
\* sets of the stored nodes are exactly the links of the store.
C8_NoOrphans ==
  /\ nodeCount(G) = Cardinality(DOMAIN nodes)
  /\ linkCount(G) = Cardinality(StoredLinks)
  /\ IncidentLinks = StoredLinks

\* C9: every stored link that names a stored node n as fromId or toId is in
\* n's incident-link set.
C9_InverseIndexComplete ==
  \A l \in StoredLinks : \A n \in DOMAIN nodes :
    n \in {linkObj[l].fromId, linkObj[l].toId}
      => l \in Range(getLinks(G, n))

\* a multigraph holding two links for the same pair of distinct nodes
C9_Witness ==
  /\ multigraph
  /\ \E l \in StoredLinks, m \in StoredLinks :
       /\ l # m
       /\ linkObj[l].fromId = linkObj[m].fromId
       /\ linkObj[l].toId = linkObj[m].toId
       /\ linkObj[l].fromId # linkObj[l].toId

\* C10: both endpoints of every stored link are stored nodes; addLink leaves
\* its two endpoints stored, and after removeNode no stored link names the
\* removed id.
C10_EndpointsStored ==
  /\ \A l \in StoredLinks :
       hasNode(G, linkObj[l].fromId) /\ hasNode(G, linkObj[l].toId)
  /\ ret.op = "addLink" => hasNode(G, ret.a) /\ hasNode(G, ret.b)
  /\ (ret.op = "removeNode" /\ ret.kind = "true")
       => /\ ~hasNode(G, ret.a)
          /\ \A l \in StoredLinks :
               ret.a \notin {linkObj[l].fromId, linkObj[l].toId}

\* removeNode has removed a node while another link stays in the store
C10_Witness ==
  /\ ret.op = "removeNode" /\ ret.kind = "true"
  /\ StoredLinks # {}
  /\ Cardinality(DOMAIN nodes) = 2

\* ------------------------------------------------------------------------
\* Properties of the store operations
\* ------------------------------------------------------------------------
\* the link object l of the store g has id as one of its endpoints
LinkNames(g, l, id) == id \in {g.linkObj[l].fromId, g.linkObj[l].toId}

\* the links that linkedNodes(nodeId, isOriented) yields, in order, up to
\* the point where the enumeration fails, if it does
RECURSIVE YieldedLinks(_)
YieldedLinks(entries) ==
  IF entries = <<>> \/ Head(entries).throw THEN <<>>
  ELSE <<Head(entries).t[2]>> \o YieldedLinks(Tail(entries))

\* C11: removeNode(id) on a stored node removes exactly that node, and
\* afterwards no link that names id is yielded by links(), by getLinks(m)
\* or by linkedNodes(m) for any remaining node m.
C11_RemoveNodeCascade ==
  [][(ret'.op = "removeNode" /\ ret'.kind = "true") =>
       LET id == ret'.a
           g == G'
       IN /\ id \in DOMAIN nodes
          /\ DOMAIN g.nodes = DOMAIN nodes \ {id}
          /\ \A k \in DOMAIN g.links : ~LinkNames(g, g.links[k], id)
          /\ \A m \in DOMAIN g.nodes :
               /\ \A l \in Range(getLinks(g, m)) : ~LinkNames(g, l, id)
               /\ \A o \in BOOLEAN :
                    \A l \in Range(YieldedLinks(linkedNodes(g, m, o))) :
                      ~LinkNames(g, l, id)]_vars

\* the keys of the links of the store g that lead from a to b
StoredFromTo(g, a, b) ==
  {k \in DOMAIN g.links :
     g.linkObj[g.links[k]].fromId = a /\ g.linkObj[g.links[k]].toId = b}

\* C12: without multigraph, addLink(a, b, d) for a pair (a, b) that has a
\* stored link leaves linkCount as it was, keeps that one link object for
\* the pair with payload d, and reports one 'update' change of that link.
C12_ReAddUpdates ==
  [][\A a \in NodeIds, b \in NodeIds, d \in LinkData :
       (/\ ~multigraph /\ ret'.op = "addLink" /\ ret'.a = a /\ ret'.b = b
        /\ StoredFromTo(G, a, b) # {} /\ AddLink(a, b, d)) =>
         LET g == G' IN
         /\ linkCount(g) = linkCount(G)
         /\ StoredFromTo(g, a, b) = StoredFromTo(G, a, b)
         /\ Cardinality(StoredFromTo(g, a, b)) = 1
         /\ \A k \in StoredFromTo(g, a, b) :
              /\ g.links[k] = links[k]
              /\ g.linkObj[g.links[k]].data = d
              /\ returned'.link = g.links[k]
              /\ listening =>
                   /\ Len(emitted') = 1
                   /\ emitted'[1].changes
                        = <<LinkChange("update", LinkRef(g, g.links[k]))>>]_vars

\* a listener has been told of the update of a link that now carries the
\* largest payload
C12_Witness ==
  /\ ~multigraph /\ listening /\ ret.op = "addLink"
  /\ Len(emitted) = 1
  /\ emitted[1].changes
       = <<LinkChange("update", LinkRef(G, returned.link))>>
  /\ linkObj[returned.link].data = MaxData
  /\ linkCount(G) = 1

\* C13: in multigraph mode every addLink call stores a link whose id no
\* other link of the store has, so linkCount grows by exactly 1 per call.
C13_MultigraphDistinctIds ==
  [][\A a \in NodeIds, b \in NodeIds, d \in LinkData :
       (multigraph /\ AddLink(a, b, d)) =>
         LET g == G'
             link == returned'.link
         IN /\ g.linkObj[link].id \notin DOMAIN links
            /\ linkCount(g) = linkCount(G) + 1
            /\ \A k \in DOMAIN g.links :
                 g.links[k] # link
                   => g.linkObj[g.links[k]].id # g.linkObj[link].id]_vars

\* the number of positions of the sequence s that hold x
Count(s, x) == Cardinality({i \in DOMAIN s : s[i] = x})

\* C14: a stored self-loop link of node n is in the incident set of n once
\* and linkedNodes(n) yields it exactly once, in either orientation.
C14_SelfLoopOnce ==
  \A n \in DOMAIN nodes : \A k \in DOMAIN links :
    (linkObj[links[k]].fromId = n /\ linkObj[links[k]].toId = n) =>
      /\ Count(getLinks(G, n), links[k]) = 1
      /\ \A o \in BOOLEAN :
           Count(YieldedLinks(linkedNodes(G, n, o)), links[k]) = 1

\* ------------------------------------------------------------------------
\* Properties of the change notification
\* ------------------------------------------------------------------------
MutatingOps ==
  {"addNode", "addLink", "removeNode", "removeLink", "removeLinkObj", "clear"}

\* the list the listener was handed holds a change of this kind
Reported(delivery, type, changeType, key) ==
  \E i \in DOMAIN delivery.changes :
    LET c == delivery.changes[i] IN
    /\ c.type = type /\ c.changeType = changeType
    /\ IF type = "node" THEN c.node[1] = key ELSE c.link.id = key

\* C15 as stated: with a listener, every public mutating call invokes the
\* listener exactly once, with the store as the call leaves it.
C15_OneBatchPerCall ==
  (listening /\ ret.op \in MutatingOps) =>
    /\ Len(emitted) = 1
    /\ emitted[1].nodes = nodes /\ emitted[1].links = links

\* C15: with a listener, a public mutating call that changes the store
\* invokes the listener exactly once, after all its changes are applied and
\* with one list that holds all of them; a call that changes nothing
\* (removeNode of an absent id, removeLink that fails or returns false,
\* clear of an empty store) does not invoke it.
C15_OneBatchPerChange ==
  [][(listening /\ ret'.op \in MutatingOps) =>
       LET changed ==
             CASE ret'.op \in {"addNode", "addLink"} -> TRUE
               [] ret'.op \in {"removeNode", "removeLink", "removeLinkObj"}
                    -> ret'.kind = "true"
               [] OTHER -> DOMAIN nodes # {}
       IN /\ Len(emitted') = IF changed THEN 1 ELSE 0
          /\ suspendEvents' = 0 /\ changes' = <<>>
          /\ ~changed => UNCHANGED <<nodes, links>>
          /\ changed =>
               /\ emitted'[1].nodes = nodes' /\ emitted'[1].links = links'
               /\ Len(emitted'[1].changes) > 0
               /\ \A n \in DOMAIN nodes' \ DOMAIN nodes :
                    Reported(emitted'[1], "node", "add", n)
               /\ \A n \in DOMAIN nodes \ DOMAIN nodes' :
                    Reported(emitted'[1], "node", "remove", n)
               /\ \A k \in DOMAIN links' \ DOMAIN links :
                    Reported(emitted'[1], "link", "add", k)
               /\ \A k \in DOMAIN links \ DOMAIN links' :
                    Reported(emitted'[1], "link", "remove", k)]_vars

\* addLink on two unknown endpoints has invoked the listener once, with the
\* three changes of the call
C15_Witness ==
  /\ listening /\ ret.op = "addLink"
  /\ Len(emitted) = 1 /\ Len(emitted[1].changes) = 3

\* one 'remove' change per link of the sequence, in its order
RemovedLinks(g, ls) ==
  [i \in 1..Len(ls) |-> LinkChange("remove", LinkRef(g, ls[i]))]

\* C16: the list of removeNode holds one 'remove' link change per incident
\* link, in the node's enumeration order, and then the 'remove' node change;
\* the list of addLink on unknown endpoints holds the 'add' node change of
\* the from endpoint, then the one of the to endpoint, then the 'add' link
\* change.
C16_ChangeOrder ==
  [][listening =>
       /\ (ret'.op = "removeNode" /\ ret'.kind = "true") =>
            /\ Len(emitted') = 1
            /\ emitted'[1].changes
                 = RemovedLinks(G, getLinks(G, ret'.a))
                     \o <<NodeChange("remove", NodeRef(G, ret'.a))>>
       /\ \A a \in NodeIds, b \in NodeIds, d \in LinkData :
            (/\ ret'.op = "addLink" /\ ret'.a = a /\ ret'.b = b
             /\ ~hasNode(G, a) /\ ~hasNode(G, b) /\ AddLink(a, b, d)) =>
              /\ Len(emitted') = 1
              /\ emitted'[1].changes
                   = <<NodeChange("add", NodeRef(G', a))>>
                       \o (IF a # b
                           THEN <<NodeChange("add", NodeRef(G', b))>>
                           ELSE <<>>)
                       \o <<LinkChange("add",
                                       LinkRef(G', returned'.link))>>]_vars

\* C17: addNode(id, data) for a stored id keeps nodeCount, returns the
\* stored node object with its payload set to data and its incident links
\* as they were, and reports 'update'; for a new id it adds exactly one
\* node and reports 'add'.
C17_AddNodeUpdates ==
  [][\A n \in NodeIds, d \in NodeData \cup {NoData} :
       (ret'.op = "addNode" /\ ret'.a = n /\ AddNode(n, d)) =>
         LET g == G' IN
         /\ \A m \in DOMAIN nodes \ {n} : hasNode(g, m) /\ g.nodes[m] = nodes[m]
         /\ links' = links
         /\ g.nodes[n].data = d
         /\ returned'.node = NodeRef(g, n)
         /\ IF hasNode(G, n)
            THEN /\ nodeCount(g) = nodeCount(G)
                 /\ NodeRef(g, n) = NodeRef(G, n)
                 /\ g.nodes[n].links = nodes[n].links
                 /\ listening =>
                      /\ Len(emitted') = 1
                      /\ emitted'[1].changes
                           = <<NodeChange("update", NodeRef(G, n))>>
            ELSE /\ nodeCount(g) = nodeCount(G) + 1
                 /\ g.nodes[n].links = <<>>
                 /\ listening =>
                      /\ Len(emitted') = 1
                      /\ emitted'[1].changes
                           = <<NodeChange("add", NodeRef(g, n))>>]_vars

\* a listener has been told of the update of a node that has incident links
\* and now carries a payload
C17_Witness ==
  /\ listening /\ ret.op = "addNode"
  /\ Len(emitted) = 1
  /\ emitted[1].changes = <<NodeChange("update", NodeRef(G, ret.a))>>
  /\ nodes[ret.a].links # <<>>
  /\ nodes[ret.a].data = MaxNodeData

\* C18: removeLink(fromId, toId) fails with an error when the store holds no
\* link from fromId to toId, or none that the pair resolves to; the nodes,
\* the links and the incident sets stay as they were and the listener is
\* not invoked.
C18_UnknownLinkFails ==
  [][(/\ ret'.op = "removeLink"
      /\ \/ StoredFromTo(G, ret'.a, ret'.b) = {}
         \/ getLink(G, ret'.a, ret'.b) = NoLink) =>
       /\ ret'.kind = "Unknown link"
       /\ UNCHANGED <<nodes, links, linkObj, multiEdges>>
       /\ emitted' = <<>>
       /\ suspendEvents' = 0 /\ changes' = <<>>]_vars

\* removeLink by endpoints has failed on a store with a listener that holds
\* a link for another pair
C18_Witness ==
  /\ listening /\ ret.op = "removeLink" /\ ret.kind = "Unknown link"
  /\ linkCount(G) > 0
  /\ StoredFromTo(G, ret.a, ret.b) = {}

RemovedOnly(o) ==
  LET g == G' IN
  /\ ret'.kind = "true"
  /\ linkCount(g) = linkCount(G) - 1
  /\ DOMAIN g.links = DOMAIN links \ {linkObj[o].id}
  /\ \A k \in DOMAIN g.links :
       g.links[k] = links[k] /\ g.linkObj[g.links[k]] = linkObj[links[k]]
  /\ nodeCount(g) = nodeCount(G)
  /\ DOMAIN g.nodes = DOMAIN nodes
  /\ \A n \in DOMAIN nodes :
       /\ g.nodes[n].data = nodes[n].data /\ g.nodes[n].obj = nodes[n].obj
       /\ g.nodes[n].links = Without(nodes[n].links, o)
  /\ o \notin Range(getLinks(g, linkObj[o].fromId))
  /\ o \notin Range(getLinks(g, linkObj[o].toId))

\* C20: removeLink of a link of the store, given as the stored object or by
\* its two endpoints, returns true, lowers linkCount by 1, takes the link
\* out of the incident sets of both endpoints and leaves nodeCount, the
\* nodes and the other links as they were.
C20_RemoveLinkFrame ==
  [][/\ \A l \in CallerLinks :
          (/\ ret'.op = "removeLinkObj"
           /\ linksGet(G, l.id) = l.oid /\ RemoveLinkObj(l)) =>
            RemovedOnly(l.oid)
     /\ \A a \in NodeIds, b \in NodeIds :
          (/\ ret'.op = "removeLink" /\ ret'.a = a /\ ret'.b = b
           /\ makeId(a, b) \in DOMAIN links) =>
            RemovedOnly(links[makeId(a, b)])]_vars

\* ------------------------------------------------------------------------
\* Properties of enumeration, clear and removal of an absent node
\* ------------------------------------------------------------------------
\* the links of the sequence ls that lead away from id
RECURSIVE Outgoing(_, _, _)
Outgoing(g, id, ls) ==
  IF ls = <<>> THEN <<>>
  ELSE (IF g.linkObj[Head(ls)].fromId = id THEN <<Head(ls)>> ELSE <<>>)
         \o Outgoing(g, id, Tail(ls))

\* Link.otherId(id)
otherId(g, link, id) ==
  IF g.linkObj[link].fromId = id THEN g.linkObj[link].toId
  ELSE g.linkObj[link].fromId

\* C21: linkedNodes(id, true) yields exactly the incident links of id whose
\* fromId is id, each as (id, link, toId); linkedNodes(id, false) yields
\* every incident link of id, each as (id, link, the other endpoint); for an
\* id that is not stored it yields nothing and does not fail.
C21_LinkedNodesYield ==
  \A id \in NodeIds : \A o \in BOOLEAN :
    LET incident == getLinks(G, id)
        expected == IF o THEN Outgoing(G, id, incident) ELSE incident
        got == linkedNodes(G, id, o)
    IN /\ Len(got) = Len(expected)
       /\ \A i \in DOMAIN got :
            /\ ~got[i].throw
            /\ got[i].t = <<id, expected[i], otherId(G, expected[i], id)>>
       /\ ~hasNode(G, id) => got = <<>>

\* C22: clear() leaves nodeCount = 0 and linkCount = 0 with no node and no
\* link left to enumerate; with a listener, the 'remove' changes of all the
\* nodes and links it removed are delivered in one notification.
C22_ClearEmpties ==
  [][ret'.op = "clear" =>
       LET g == G' IN
       /\ nodeCount(g) = 0 /\ linkCount(g) = 0
       /\ nodes' = EmptyFn /\ links' = EmptyFn
       /\ \A n \in NodeIds :
            /\ getLinks(g, n) = <<>>
            /\ \A o \in BOOLEAN : linkedNodes(g, n, o) = <<>>
       /\ suspendEvents' = 0 /\ changes' = <<>>
       /\ listening =>
            /\ Len(emitted') = IF DOMAIN nodes = {} THEN 0 ELSE 1
            /\ DOMAIN nodes # {} =>
                 /\ emitted'[1].nodes = EmptyFn /\ emitted'[1].links = EmptyFn
                 /\ \A i \in DOMAIN emitted'[1].changes :
                      emitted'[1].changes[i].changeType = "remove"
                 /\ \A n \in DOMAIN nodes :
                      Reported(emitted'[1], "node", "remove", n)
                 /\ \A k \in DOMAIN links :
                      Reported(emitted'[1], "link", "remove", k)]_vars

\* clear has emptied a store of three nodes and two links and the listener
\* was handed the five changes at once
C22_Witness ==
  /\ listening /\ ret.op = "clear"
  /\ Len(emitted) = 1 /\ Len(emitted[1].changes) = 5
  /\ nodes = EmptyFn /\ links = EmptyFn

\* C23: removeNode(id) for an id that is not stored returns false, leaves
\* the nodes, the links and the incident sets as they were and does not
\* invoke the listener.
C23_RemoveAbsentNode ==
  [][(ret'.op = "removeNode" /\ ret'.a \notin DOMAIN nodes) =>
       /\ ret'.kind = "false"
       /\ UNCHANGED <<nodes, links, linkObj, multiEdges>>
       /\ emitted' = <<>>
       /\ suspendEvents' = 0 /\ changes' = <<>>]_vars

\* removeNode has returned false on a store with a listener that holds
\* nodes and links
C23_Witness ==
  /\ listening /\ ret.op = "removeNode" /\ ret.kind = "false"
  /\ ret.a \notin DOMAIN nodes
  /\ nodeCount(G) > 0 /\ linkCount(G) > 0

\* C24: after any sequence of public operations of the store, enumerating
\* linkedNodes(id, oriented) never raises 'Invalid link' or 'Invalid node
\* state', for any id and either orientation.
C24_NoInvalidLink ==
  \A id \in NodeIds : \A o \in BOOLEAN :
    \A i \in DOMAIN linkedNodes(G, id, o) : ~linkedNodes(G, id, o)[i].throw

\* ------------------------------------------------------------------------
\* Properties of the outcome of a search and of the pool
\* ------------------------------------------------------------------------
\* C25: every find call ends with exactly one of three outcomes: a path, the
\* NO_PATH sentinel, or the error for an endpoint that is not stored; the
\* error is the outcome exactly when an endpoint is not stored.
C25_ThreeOutcomes ==
  FindCalled =>
    /\ ret.kind \in {"path", "NO_PATH", "is not defined in this graph"}
    /\ ret.kind = "is not defined in this graph" <=> ~BothStored
    /\ ret.kind = "path" => Len(ret.path) > 0
    /\ ret.kind # "path" => ret.path = <<>>

\* C26: newState(node) returns a record with node = the argument, parent =
\* null, closed = false, open = 0, distanceToSource = fScore = +infinity and
\* heapIndex = -1, whether the record is new or reused and whatever an
\* earlier search wrote into it.
C26_NewStateClean ==
  [][ret'.op = "newState" =>
       /\ ret'.b \in DOMAIN nodeCache'
       /\ nodeCache'[ret'.b] = NodeSearchState(ret'.a)
       /\ nodeCache'[ret'.b].node = ret'.a
       /\ nodeCache'[ret'.b].parent = Null
       /\ nodeCache'[ret'.b].closed = FALSE
       /\ nodeCache'[ret'.b].open = 0
       /\ nodeCache'[ret'.b].distanceToSource = Infinity
       /\ nodeCache'[ret'.b].fScore = Infinity
       /\ nodeCache'[ret'.b].heapIndex = -1]_vars

\* newState has reused a record that an earlier search had closed, opened
\* and given a parent, a distance and another node
C26_Witness ==
  /\ ret.op = "newState" /\ ret.kind = "reused"
  /\ ret.path[1].closed /\ ret.path[1].open = 1
  /\ ret.path[1].parent # Null
  /\ ret.path[1].distanceToSource < Infinity
  /\ ret.path[1].node # ret.a
  /\ nodeCache[ret.b] = NodeSearchState(ret.a)

\* C27: over any sequence of reset() and newState() calls the number of
\* allocated records never decreases: reset() only sets the cursor to 0;
\* newState() allocates one record when the cursor is at or beyond the
\* number of allocated records and otherwise reuses the record at the
\* cursor, leaving the other records alone; the cursor advances by 1.
C27_CapacityKept ==
  [][/\ Len(nodeCache') >= Len(nodeCache)
     /\ ret'.op = "reset" =>
          currentInCache' = 0 /\ nodeCache' = nodeCache
     /\ ret'.op = "newState" =>
          /\ currentInCache' = currentInCache + 1
          /\ ret'.b = currentInCache + 1
          /\ Len(nodeCache') = IF currentInCache >= Len(nodeCache)
                               THEN Len(nodeCache) + 1 ELSE Len(nodeCache)
          /\ ret'.kind = IF currentInCache >= Len(nodeCache)
                         THEN "fresh" ELSE "reused"
          /\ \A i \in DOMAIN nodeCache :
               i # ret'.b => nodeCache'[i] = nodeCache[i]]_vars

\* after a reset, newState has reused the first record while the pool keeps
\* its two allocated records
C27_Witness ==
  /\ ret.op = "newState" /\ ret.kind = "reused" /\ ret.b = 1
  /\ currentInCache = 1 /\ Len(nodeCache) = MaxPool

\* ------------------------------------------------------------------------
\* Properties of the ring buffer
\* ------------------------------------------------------------------------
\* the last m elements of the sequence s
Last(s, m) == SubSeq(s, Len(s) - m + 1, Len(s))

\* C28: for a Ring of capacity n >= 1, after k pushes get() returns the last
\* min(k, n) pushed values in push order, size = min(k, n), count = k, and
\* full holds exactly when k >= n.
C28_RingWindow ==
  LET k == Len(pushed)
      n == length
      m == IF k < n THEN k ELSE n
  IN n >= 1 =>
       /\ get(Ring) = Last(pushed, m)
       /\ size(Ring) = m
       /\ count = k
       /\ full(Ring) <=> k >= n
       /\ ret.op = "get" => ret.path = Last(pushed, m)

\* get() has returned the window of a ring of the largest capacity that has
\* wrapped around more than twice, the last two values pushed being different
C28_Witness ==
  /\ ret.op = "get" /\ length = MaxLength
  /\ count = MaxPushes /\ count > 2 * length
  /\ pushed[count] # pushed[count - 1]
  /\ ret.path = Last(pushed, length)

\* ------------------------------------------------------------------------
\* Properties of the integer division
\* ------------------------------------------------------------------------
Sign(x) == IF x < 0 THEN -1 ELSE IF x > 0 THEN 1 ELSE 0

\* C29: for integers x and y # 0, divmod(x, y) returns [q, r] with
\* x = q * y + r, where r is 0 or has the sign of y and |r| < |y|; the
\* bigint and the number variant return the same pair; y = 0 raises
\* 'Division by zero'.
C29_FlooredDivision ==
  ret.op = "divmod" =>
    IF ret.b = 0 THEN ret.kind = "Division by zero"
    ELSE /\ ret.kind \in {"number", "bigint"}
         /\ Len(ret.path) = 2
         /\ ret.a = ret.path[1] * ret.b + ret.path[2]
         /\ ret.path[2] = 0 \/ Sign(ret.path[2]) = Sign(ret.b)
         /\ Abs(ret.path[2]) < Abs(ret.b)
         /\ divmod("number", ret.a, ret.b) = divmod("bigint", ret.a, ret.b)

\* ------------------------------------------------------------------------
\* Properties of the expansion of a search state
\* ------------------------------------------------------------------------
\* the search as find has set it up when it enters its loop
SearchStart(p, fromId, toId) ==
  LET s == newState(reset(p), fromId)
      cache1 == [s.pool.nodeCache EXCEPT
                   ![s.state].fScore = heuristic(fromId, toId),
                   ![s.state].distanceToSource = 0]
  IN [cache |-> [cache1 EXCEPT ![s.state].open = 1],
      cur |-> s.pool.currentInCache,
      nodeState |-> [x \in {fromId} |-> s.state],
      openSet |-> heapPush(cache1, <<>>, s.state)]

\* the nodes that the incident links of the stored node n lead to
Adjacent(g, n) == {otherId(g, l, n) : l \in Range(getLinks(g, n))}

\* after the expansion of the state current, every node adjacent to its
\* node that is not closed has a search state no farther than one step
\* beyond current
Examined(g, e, current) ==
  \A n \in Adjacent(g, e.cache[current].node) :
    \/ n \in DOMAIN e.nodeState /\ e.cache[e.nodeState[n]].closed
    \/ /\ n \in DOMAIN e.nodeState
       /\ e.cache[e.nodeState[n]].distanceToSource
            <= e.cache[current].distanceToSource + 1

\* Examined holds after every expansion that the loop of find makes from e
RECURSIVE EveryExpansion(_, _, _, _)
EveryExpansion(g, o, e, to) ==
  IF Len(e.openSet) = 0 THEN TRUE
  ELSE
    LET p == heapPop(e.cache, e.openSet)
        cameFrom == p.item
    IN IF goalReached(e.cache, cameFrom, to) THEN TRUE
       ELSE
         LET e1 == [e EXCEPT !.openSet = p.data,
                             !.cache[cameFrom].closed = TRUE]
             v == visit(g, o, e1, cameFrom,
                        linkedNodes(g, e1.cache[cameFrom].node, o.oriented),
                        1, to)
         IN IF v.threw # "" THEN TRUE
            ELSE Examined(g, v.e, cameFrom) /\ EveryExpansion(g, o, v.e, to)

\* C30: when find with default options expands a state that is not the
\* goal, it examines the other endpoint of each incident link: after the
\* expansion every adjacent node that is not closed has a search state with
\* distanceToSource <= the distance of the expanded state + 1.
C30_NeighboursExamined ==
  [][\A f \in NodeIds, t \in NodeIds :
       (/\ ret'.op = "find" /\ ret'.a = f /\ ret'.b = t
        /\ DefaultOptions /\ endpointsDefined(G, f, t)) =>
         EveryExpansion(G, Opts, SearchStart(Pool, f, t), t)]_vars

FreeJoins(a, b) ==
  \E l \in StoredLinks :
    /\ ~blockedBy(Opts, G, b, a, l)
    /\ \/ linkObj[l].fromId = a /\ linkObj[l].toId = b
       \/ ~oriented /\ linkObj[l].fromId = b /\ linkObj[l].toId = a

\* the stored nodes within k steps of a that are not blocked
RECURSIVE FreeBall(_, _)
FreeBall(a, k) ==
  IF k = 0 THEN {a} \cap DOMAIN nodes
  ELSE LET B == FreeBall(a, k - 1) IN
       B \cup {n \in DOMAIN nodes : \E m \in B : FreeJoins(m, n)}

FreeHops(a, b) ==
  CHOOSE k \in 0..Cardinality(DOMAIN nodes) :
    /\ b \in FreeBall(a, k)
    /\ k = 0 \/ b \notin FreeBall(a, k - 1)

\* C32: no path that find returns has a step that the blocked predicate of
\* the caller rejects, and find returns a path of the least number of steps
\* among the paths without a blocked step; it returns NO_PATH only when
\* every path has a blocked step.
C32_AvoidsBlocked ==
  (FindCalled /\ distance = "unit" /\ BothStored) =>
    /\ ret.kind = "path" =>
         \A i \in 1..(Len(ret.path) - 1) :
           FreeJoins(ret.path[i + 1], ret.path[i])
    /\ IF ret.b \in FreeBall(ret.a, Cardinality(DOMAIN nodes))
       THEN /\ ret.kind = "path"
            /\ Len(ret.path) - 1 = FreeHops(ret.a, ret.b)
       ELSE ret.kind # "path"

\* the relaxation of record k from the popped record c over a link of
\* distance d has been skipped or has not been tried in this step
NotRelaxed(k, c, d) == ~Relax(k, c, d)

RECURSIVE Expansions(_, _, _, _)
Expansions(g, o, e, to) ==
  IF Len(e.openSet) = 0 THEN <<>>
  ELSE
    LET p == heapPop(e.cache, e.openSet)
        cameFrom == p.item
    IN IF goalReached(e.cache, cameFrom, to) THEN <<>>
       ELSE
         LET e1 == [e EXCEPT !.openSet = p.data,
                             !.cache[cameFrom].closed = TRUE]
             v == visit(g, o, e1, cameFrom,
                        linkedNodes(g, e1.cache[cameFrom].node, o.oriented),
                        1, to)
         IN <<[current |-> cameFrom, before |-> e1, after |-> v.e]>>
              \o (IF v.threw # "" THEN <<>> ELSE Expansions(g, o, v.e, to))

\* the states closed in the search e1 are in e2 what they were in e1, and
\* are not more often on the frontier
ClosedKept(e1, e2) ==
  \A s \in 1..e1.cur :
    e1.cache[s].closed =>
      /\ e2.cache[s].closed
      /\ e2.cache[s].parent = e1.cache[s].parent
      /\ e2.cache[s].distanceToSource = e1.cache[s].distanceToSource
      /\ e2.cache[s].fScore = e1.cache[s].fScore
      /\ Count(e2.openSet, s) <= Count(e1.openSet, s)

\* every search state handed out belongs to one node id, and no id has two
OneStatePerNode(e) ==
  /\ \A n \in DOMAIN e.nodeState :
       e.nodeState[n] \in 1..e.cur /\ e.cache[e.nodeState[n]].node = n
  /\ \A s \in 1..e.cur :
       \E n \in DOMAIN e.nodeState : e.nodeState[n] = s
  /\ Cardinality(DOMAIN e.nodeState) = e.cur

\* C34: within one find call a search state that has been closed keeps its
\* parent, distanceToSource and fScore and is not pushed on the frontier
\* again, and each node id has at most one search state.
C34_ClosedIsFinal ==
  [][\A f \in NodeIds, t \in NodeIds :
       (/\ ret'.op = "find" /\ ret'.a = f /\ ret'.b = t
        /\ endpointsDefined(G, f, t)) =>
         LET x == Expansions(G, Opts, SearchStart(Pool, f, t), t) IN
         /\ OneStatePerNode(SearchStart(Pool, f, t))
         /\ \A i \in DOMAIN x :
              /\ x[i].before.cache[x[i].current].closed
              /\ ClosedKept(x[i].before, x[i].after)
              /\ OneStatePerNode(x[i].after)
              /\ i < Len(x) => ClosedKept(x[i].after, x[i + 1].before)]_vars

\* find has closed the state of a node and then met that state again while
\* it went through two incident links of the node
C34_Witness ==
  /\ FindCalled /\ ret.kind = "NO_PATH"
  /\ Len(getLinks(G, ret.a)) >= 2
  /\ nodeCache[1].closed /\ nodeCache[1].node = ret.a

C36_GetLinkOrdered ==
  ~multigraph =>
    \A a \in NodeIds, b \in NodeIds :
      /\ makeId(a, b) \in DOMAIN links =>
           getLink(G, a, b) = links[makeId(a, b)]
      /\ makeId(b, a) \notin DOMAIN links => getLink(G, b, a) = NoLink

\* C37: removeLink(link) with a Link object that is not the one the store
\* holds under its id removes nothing and returns false: the links of the
\* store and the incident links of every node are what they were.
C37_OnlyTheObjectGiven ==
  [][\A l \in CallerLinks :
       (/\ ret'.op = "removeLinkObj"
        /\ linksGet(G, l.id) # l.oid
        /\ RemoveLinkObj(l)) =>
         /\ ret'.kind = "false"
         /\ links' = links
         /\ nodes' = nodes]_vars

\* The list a listener is handed is this.#changes itself, and the store
\* keeps that one array for its whole life: a listener that keeps the list
\* reads in it whatever #changes holds at the time of reading.
keptList(g) == g.changes

\* C39: the change list handed to a listener is not modified by the store
\* after delivery: when the mutating call has returned, a listener that kept
\* the list still finds in it the changes it was handed.
C39_DeliveredListKept ==
  \A i \in DOMAIN emitted : keptList(G) = emitted[i].changes

\* ------------------------------------------------------------------------
\* A listener that calls the store from inside its callback
\* ------------------------------------------------------------------------
\* the mutating calls looked at: addNode(a), addLink(a, b), removeNode(a)
StoreCalls ==
  {[op |-> "addNode", a |-> n, b |-> n] : n \in NodeIds}
    \cup {[op |-> "removeNode", a |-> n, b |-> n] : n \in NodeIds}
    \cup {[op |-> "addLink", a |-> f, b |-> t] : f \in NodeIds, t \in NodeIds}

\* the store after the public call c
callOn(g, c) ==
  CASE c.op = "addNode" -> addNode(g, c.a, NoData).g
    [] c.op = "removeNode" -> removeNode(g, c.a).g
    [] c.op = "addLink" -> addLink(g, c.a, c.b, MaxData).g

\* The public call c up to its last #exitModification.  #suspendEvents is
\* read nowhere but in #exitModification, so the store at that point is the
\* store after the call made with the counter one higher.
beforeLastExit(g, c) == callOn(enterModification(g), c)

\* Graph.#exitModification with a listener that makes the call inner from
\* inside its callback when it is notified by the outer call, and makes no
\* call when it is notified by its own call.  emit calls the listener before
\* it returns, so the inner call runs between lines 122 and 123.
exitModification_reentrant(g, inner) ==
  LET g1 == [g EXCEPT !.suspendEvents = @ - 1] IN
  IF g1.suspendEvents = 0 /\ Len(g1.changes) > 0
  THEN LET handed == [g1 EXCEPT !.emitted = Append(@, Delivery(g1))]
           back == callOn(handed, inner)
       IN [back EXCEPT !.changes = <<>>]
  ELSE g1

\* the public call outer on a store whose listener answers with inner: two
\* public calls of the budget
Reentrant(outer, inner) ==
  /\ calls + 2 <= MaxCalls
  /\ calls' = calls + 2
  /\ SetGraph(Collect(exitModification_reentrant(beforeLastExit(G, outer),
                                                 inner)))
  /\ ret' = Ret("reentrant", outer.a, outer.b, outer.op, <<>>, 0)
  /\ returned' = NoReturn
  /\ UNCHANGED <<astarVars, ringVars>>

NextReentrant ==
  \E outer \in StoreCalls, inner \in StoreCalls : Reentrant(outer, inner)

SpecReentrant == InitEvents /\ [][NextReentrant]_vars

\* the change records that the call c makes on the store g
recorded(g, c) == beforeLastExit([g EXCEPT !.changes = <<>>], c).changes

\* the lists handed to the listener, one after the other
RECURSIVE Batches(_)
Batches(deliveries) ==
  IF deliveries = <<>> THEN <<>>
  ELSE Head(deliveries).changes \o Batches(Tail(deliveries))

\* C38: when the listener calls a mutating operation from inside its
\* callback, every change record of the outer and of the inner call is
\* handed to the listener in exactly one list, none twice and none never,
\* and the suspend counter is 0 when the outer call returns.
C38_NestedCallOneBatch ==
  [][\A outer \in StoreCalls, inner \in StoreCalls :
       (/\ ret'.op = "reentrant"
        /\ ret'.a = outer.a /\ ret'.b = outer.b /\ ret'.kind = outer.op
        /\ Reentrant(outer, inner)) =>
         LET first == recorded(G, outer)
             met == [beforeLastExit(G, outer) EXCEPT !.suspendEvents = @ - 1]
             second == IF first = <<>> THEN <<>> ELSE recorded(met, inner)
         IN /\ Batches(emitted') = first \o second
            /\ suspendEvents' = 0]_vars

====
